---- MODULE Spec2Model ----
(***************************************************************************)
(* Model of licensure's rule configuration:                                *)
(*   src/config/comment.rs  get_filetype, FileType::matches,               *)
(*                          Config::matches                                *)
(*   src/config/license.rs  Config::fetch_template, Config::get_template,  *)
(*                          get_git_dates_for_file                         *)
(*                                                                         *)
(* A Rust string is a finite sequence of symbols (1-character strings for  *)
(* file names, whole tokens for git dates and process output).  Option<T>  *)
(* is a sequence of length at most one: None is << >>, Some(x) is <<x>>.   *)
(***************************************************************************)
EXTENDS Integers, Sequences, FiniteSets, TLC

\* ------------------------------------------------------------------ bounds
MaxLen == 3
MaxExts == 2
MaxDates == 2

\* ----------------------------------------------------------------- helpers
None == << >>
Some(x) == <<x>>
IsSome(o) == Len(o) > 0
Unwrap(o) == o[1]
UnwrapOr(o, d) == IF IsSome(o) THEN o[1] ELSE d

SeqsUpTo(S, n) == UNION {[1..k -> S] : k \in 0..n}

\* str::split(sep): every piece between separators, empty pieces included;
\* a string without the separator is the single piece of the iterator.
RECURSIVE Split(_, _)
Split(s, sep) ==
    IF \E i \in 1..Len(s) : s[i] = sep
    THEN LET i == CHOOSE k \in 1..Len(s) :
                     s[k] = sep /\ \A j \in 1..(k - 1) : s[j] # sep
         IN  <<SubSeq(s, 1, i - 1)>> \o Split(SubSeq(s, i + 1, Len(s)), sep)
    ELSE <<s>>

\* Iterator::nth(n), n counted from 0.
Nth(seq, n) == IF n + 1 <= Len(seq) THEN Some(seq[n + 1]) ELSE None

\* ------------------------------------------------- comment.rs: the matcher
DOT == "."
ANY == <<"a", "n", "y">>
PY == <<"p", "y">>
PY_UPPER == <<"P", "Y">>
EMPTY == << >>
TestPy == <<"t", "e", "s", "t", ".", "p", "y">>

FilenameChars == {"a", "b", DOT}
Filenames == SeqsUpTo(FilenameChars, MaxLen) \cup {TestPy}

\* Extensions a rule may list, and extensions a file may have.
ConfigExts == {ANY, PY, PY_UPPER}
FileExts == {ANY, PY, PY_UPPER, EMPTY}

\* Paths handed to Config::matches, and the filename patterns of a rule: a
\* compiled pattern list is represented by the set of paths it matches.
PathA == <<"a", ".", "p", "y">>
PathB == <<"b", ".", "p", "y">>
Paths == {PathA, PathB}
RegexLists == SUBSET Paths

FileTypes ==
    {[kind |-> "Single", val |-> e] : e \in ConfigExts}
        \cup {[kind |-> "List", val |-> l] : l \in SeqsUpTo(ConfigExts, MaxExts)}

CommentConfigs ==
    {[extension |-> e, files |-> f] :
        e \in FileTypes, f \in {None} \cup {Some(r) : r \in RegexLists}}

\* Config::default()
DefaultCommentConfig ==
    [extension |-> [kind |-> "Single", val |-> ANY], files |-> None]

\* get_filetype: split('.').last().unwrap_or_default()
get_filetype(filename) ==
    LET iter == Split(filename, DOT)
    IN  IF Len(iter) = 0 THEN EMPTY ELSE iter[Len(iter)]

\* FileType::matches
FileTypeMatches(self, ft) ==
    IF self.kind = "Single"
    THEN self.val = ANY \/ self.val = ft
    ELSE \E i \in 1..Len(self.val) : self.val[i] = ft

\* RegexList::is_match, on the set of paths the patterns match.
RegexListIsMatch(files, filename) == filename \in files

\* The mutant evaluates the filename pattern without the extension check.
ConfigMatchesNoExtension(self, file_type, filename) ==
    IF IsSome(self.files)
    THEN [ret |-> RegexListIsMatch(Unwrap(self.files), filename),
          consulted |-> TRUE]
    ELSE [ret |-> TRUE, consulted |-> FALSE]

\* Config::matches: the value returned, and whether files.is_match was called.
ConfigMatches(self, file_type, filename) ==
    IF FileTypeMatches(self.extension, file_type)
    THEN IF IsSome(self.files)
         THEN [ret |-> RegexListIsMatch(Unwrap(self.files), filename),
               consulted |-> TRUE]
         ELSE [ret |-> TRUE, consulted |-> FALSE]
    ELSE [ret |-> FALSE, consulted |-> FALSE]

\* ------------------------------------------------ license.rs: the template
SP == " "
NL == "\n"

\* Dates as `git log --format=%ad --date default` and chrono's
\* "%a %b %d %T %Y %z" print them: six fields separated by single spaces.
DateOf(dow, mon, day, time, year, tz) ==
    <<dow, SP, mon, SP, day, SP, time, SP, year, SP, tz>>
Date2024 == DateOf("Wed", "May", "29", "04:54:58", "2024", "+0100")
Date2020 == DateOf("Mon", "Jan", "02", "00:00:00", "2020", "+0000")
IsoDate == <<"2024-05-29", SP, "04:54:58", SP, "+0100">>
NowDates == {DateOf("Mon", "Nov", "02", "12:00:00", "2026", "+0000")}

\* Lines git may print: well-formed dates, a date in another format, a blank line.
GitLines == {Date2024, Date2020, IsoDate, EMPTY}

\* The bytes of stdout: every line followed by a newline.
RECURSIVE Unlines(_)
Unlines(lines) ==
    IF lines = << >> THEN << >>
    ELSE Head(lines) \o <<NL>> \o Unlines(Tail(lines))

\* Command::output(): the spawn fails, or the process ran to the end and left
\* an exit status and its stdout (which may or may not be UTF-8).  Outside a
\* repository git log ends with status 128 and an empty stdout.
GitOutputs ==
    {[spawn |-> "Err", status |-> 0, utf8 |-> TRUE, stdout |-> EMPTY],
     [spawn |-> "Ok", status |-> 0, utf8 |-> FALSE, stdout |-> EMPTY],
     [spawn |-> "Ok", status |-> 128, utf8 |-> TRUE, stdout |-> EMPTY]}
        \cup {[spawn |-> "Ok", status |-> 0, utf8 |-> TRUE, stdout |-> Unlines(l)] :
                l \in SeqsUpTo(GitLines, MaxDates)}

\* SPDXLicenseInfo as deserialized: licenseText, optional standardLicenseHeader.
LicenseInfos ==
    {[license_text |-> "TEXT", license_header |-> h] : h \in {None, Some("HEADER")}}

\* ureq call(): a transport error, or a response with a status and a body that
\* into_json() parses (Some) or rejects (None).
HttpResponses ==
    {[call |-> "Err", status |-> 0, json |-> None]}
        \cup {[call |-> "Ok", status |-> 200, json |-> j] :
                j \in {None} \cup {Some(i) : i \in LicenseInfos}}
        \cup {[call |-> "Ok", status |-> s, json |-> Some(i)] :
                s \in {404, 500, 204}, i \in LicenseInfos}

Envs == [http : HttpResponses, git : GitOutputs, now : NowDates]

LicenseConfigs ==
    [ident : {"MIT"},
     authors : {<<"Jane Doe">>},
     end_year : {None, Some(<<"1999">>)},
     start_year : {None, Some(<<"1990">>)},
     use_dynamic_year_ranges : BOOLEAN,
     template : {None, Some("STATIC")},
     auto_template : {None, Some(TRUE), Some(FALSE)},
     unwrap_text : {TRUE}]

DefaultLicenseConfig ==
    [ident |-> "MIT", authors |-> <<"Jane Doe">>, end_year |-> None,
     start_year |-> None, use_dynamic_year_ranges |-> FALSE,
     template |-> Some("STATIC"), auto_template |-> None, unwrap_text |-> TRUE]

Url(ident) == <<"https://spdx.org/licenses/", ident, ".json">>

\* process::exit(1) after println!, and a panic (expect on None / Err).
Exit(printed) == [outcome |-> "exit", code |-> 1, printed |-> printed]
Panic(msg) == [outcome |-> "panic", code |-> 101, printed |-> <<<<msg>>>>]

\* get_git_dates_for_file
get_git_dates_for_file(filename, proc) ==
    IF proc.spawn = "Ok"
    THEN IF proc.utf8
         THEN [outcome |-> "ok",
               dates |-> SelectSeq(Split(proc.stdout, NL), LAMBDA s : s # EMPTY)]
         ELSE Panic("git log output was not UTF-8!")
    ELSE Exit(<<<<"Failed to run git log to get file dates. Make sure you're in a git repo.">>,
               <<"spawn error">>>>)

\* The mutant prefers the full license text over the standard header.
FetchTemplatePrefersText(self, http) ==
    [outcome |-> IF http.call = "Ok" /\ http.status = 200 /\ IsSome(http.json)
                 THEN "ok" ELSE "exit",
     code |-> 1,
     printed |-> <<<<"fetch">>>>,
     requests |-> <<Url(self.ident)>>,
     body |-> IF IsSome(http.json) THEN Unwrap(http.json).license_text ELSE ""]

\* The mutant treats every status other than 404 as success.
FetchTemplateOnly404(self, http) ==
    [outcome |-> IF http.call = "Ok" /\ http.status # 404 /\ IsSome(http.json)
                 THEN "ok" ELSE "exit",
     code |-> 1,
     printed |-> <<<<"fetch">>>>,
     requests |-> <<Url(self.ident)>>,
     body |-> IF IsSome(http.json)
              THEN UnwrapOr(Unwrap(http.json).license_header,
                            Unwrap(http.json).license_text)
              ELSE ""]

\* Config::fetch_template: one GET, then the status, then the body.
FetchTemplate(self, http) ==
    LET requests == <<Url(self.ident)>>
        failed(printed) == Exit(printed) @@ [requests |-> requests, body |-> ""]
    IN  IF http.call = "Err"
        THEN failed(<<<<"Failed to fetch license template from SPDX: ", "error">>>>)
        ELSE IF http.status = 404
        THEN failed(<<<<self.ident, " does not appear to be a valid SPDX identifier">>>>)
        ELSE IF http.status # 200
        THEN failed(<<<<"Failed to fetch license template from SPDX for ",
                        self.ident, http.status>>>>)
        ELSE IF ~IsSome(http.json)
        THEN failed(<<<<"Failed to deserialize SPDX JSON: ", "error">>>>)
        ELSE LET license_info == Unwrap(http.json)
             IN  [outcome |-> "ok", code |-> 0, printed |-> << >>,
                  requests |-> requests,
                  body |-> IF IsSome(license_info.license_header)
                           THEN Unwrap(license_info.license_header)
                           ELSE license_info.license_text]

\* The mutant looks at auto_template first: with it on, the registry is asked
\* even though a static template is configured.
SelectTemplateAutoFirst(self, http) ==
    IF UnwrapOr(self.auto_template, FALSE)
    THEN FetchTemplate(self, http)
    ELSE IF IsSome(self.template)
    THEN [outcome |-> "ok", code |-> 0, printed |-> << >>, requests |-> << >>,
          body |-> Unwrap(self.template)]
    ELSE Exit(<<<<"auto_template not enabled and no template provided, please add a template option to the license definition for ",
                  self.ident, ". Exitting">>>>)
             @@ [requests |-> << >>, body |-> ""]

\* The mutant asks the registry whenever no template is configured, whatever
\* auto_template says.
SelectTemplateFetchWhenDisabled(self, http) ==
    IF IsSome(self.template)
    THEN [outcome |-> "ok", code |-> 0, printed |-> << >>, requests |-> << >>,
          body |-> Unwrap(self.template)]
    ELSE FetchTemplate(self, http)

\* get_template, the choice of the template body (let t = match &self.template).
SelectTemplate(self, http) ==
    IF IsSome(self.template)
    THEN [outcome |-> "ok", code |-> 0, printed |-> << >>, requests |-> << >>,
          body |-> Unwrap(self.template)]
    ELSE IF UnwrapOr(self.auto_template, FALSE)
    THEN FetchTemplate(self, http)
    ELSE Exit(<<<<"auto_template not enabled and no template provided, please add a template option to the license definition for ",
                  self.ident, ". Exitting">>>>)
             @@ [requests |-> << >>, body |-> ""]

\* The year of a date: the field at index 4 of split(' ').
YearField(date) == Nth(Split(date, SP), 4)

\* The mutant takes the first date as the created one and the last as the
\* last-updated one.
ResolveYearsSwapped(self, filename, env) ==
    IF self.use_dynamic_year_ranges
    THEN LET got == get_git_dates_for_file(filename, env.git)
             dates == got.dates
             last_updated_date ==
                 IF Len(dates) = 0 THEN env.now ELSE dates[Len(dates)]
             created_date == IF Len(dates) = 0 THEN env.now ELSE dates[1]
         IN  IF got.outcome # "ok"
             THEN got @@ [gitQueries |-> <<filename>>, dates |-> None]
             ELSE IF ~IsSome(YearField(created_date))
                     \/ ~IsSome(YearField(last_updated_date))
             THEN Panic("Unable to parse year!")
                      @@ [gitQueries |-> <<filename>>, dates |-> Some(dates)]
             ELSE [outcome |-> "ok", gitQueries |-> <<filename>>,
                   dates |-> Some(dates),
                   end_year |-> Some(Unwrap(YearField(last_updated_date))),
                   start_year |-> Some(Unwrap(YearField(created_date)))]
    ELSE [outcome |-> "ok", gitQueries |-> << >>, dates |-> None,
          end_year |-> self.end_year, start_year |-> self.start_year]

\* get_template, the years (let (end_year, start_year) = ...).
ResolveYears(self, filename, env) ==
    IF self.use_dynamic_year_ranges
    THEN LET now_date == env.now
             got == get_git_dates_for_file(filename, env.git)
             dates == got.dates
             last_updated_date ==
                 IF Len(dates) >= 2 THEN dates[1]
                 ELSE IF Len(dates) = 1 THEN dates[1] ELSE now_date
             created_date ==
                 IF Len(dates) >= 2 THEN dates[Len(dates)]
                 ELSE IF Len(dates) = 1 THEN dates[1] ELSE now_date
             created_year == YearField(created_date)
             last_updated_year == YearField(last_updated_date)
         IN  IF got.outcome # "ok"
             THEN got @@ [gitQueries |-> <<filename>>, dates |-> None]
             ELSE IF ~IsSome(created_year)
             THEN Panic("Unable to parse created year!")
                      @@ [gitQueries |-> <<filename>>, dates |-> Some(dates)]
             ELSE IF ~IsSome(last_updated_year)
             THEN Panic("Unable to parse last updated year!")
                      @@ [gitQueries |-> <<filename>>, dates |-> Some(dates)]
             ELSE [outcome |-> "ok", gitQueries |-> <<filename>>,
                   dates |-> Some(dates),
                   end_year |-> Some(Unwrap(last_updated_year)),
                   start_year |-> Some(Unwrap(created_year))]
    ELSE [outcome |-> "ok", gitQueries |-> << >>, dates |-> None,
          end_year |-> self.end_year, start_year |-> self.start_year]

\* What one call of get_template leaves behind: how it ended, what it printed,
\* the registry requests and git queries it made, the dates git gave, and the
\* Template it returned (None when the process ended instead).
NoCall ==
    [outcome |-> "none", code |-> 0, printed |-> << >>, requests |-> << >>,
     gitQueries |-> << >>, dates |-> None, template |-> None]

\* Config::get_template
GetTemplateResult(self, filename, env) ==
    LET t == SelectTemplate(self, env.http)
        years == ResolveYears(self, filename, env)
    IN  IF t.outcome # "ok"
        THEN [outcome |-> t.outcome, code |-> t.code, printed |-> t.printed,
              requests |-> t.requests, gitQueries |-> << >>, dates |-> None,
              template |-> None]
        ELSE IF years.outcome # "ok"
        THEN [outcome |-> years.outcome, code |-> years.code,
              printed |-> years.printed, requests |-> t.requests,
              gitQueries |-> years.gitQueries, dates |-> years.dates,
              template |-> None]
        ELSE [outcome |-> "returned", code |-> 0, printed |-> << >>,
              requests |-> t.requests, gitQueries |-> years.gitQueries,
              dates |-> years.dates,
              template |->
                  Some([body |-> t.body,
                        context |-> [end_year |-> years.end_year,
                                     start_year |-> years.start_year,
                                     ident |-> self.ident,
                                     authors |-> self.authors,
                                     unwrap_text |-> self.unwrap_text],
                        spdx_template |-> UnwrapOr(self.auto_template, FALSE)])]

\* ------------------------------------------------------------------- state
VARIABLES
    comment,    \* the comment rule (comment.rs Config), immutable after load
    license,    \* the license rule (license.rs Config), immutable after load
    lastOp,     \* the operation that ran last: "none", "get_filetype", "matches"
    ftArg,      \* get_filetype: its argument
    ftRet,      \*               its return value
    mArgs,      \* Config::matches: <<file_type, filename>>
    mRet,       \*                  [ret, consulted]
    env,        \* get_template: what the registry, git and the clock answer
    call        \*               what the call did (see NoCall)

vars == <<comment, license, lastOp, ftArg, ftRet, mArgs, mRet, env, call>>
matcherVars == <<comment, lastOp, ftArg, ftRet, mArgs, mRet>>
licenseVars == <<license, env, call>>

NoMatch == [ret |-> FALSE, consulted |-> FALSE]
NoEnv == CHOOSE e \in Envs : e.http.call = "Err" /\ e.git.spawn = "Err"

MatcherIdle ==
    /\ lastOp = "none"
    /\ ftArg = EMPTY
    /\ ftRet = EMPTY
    /\ mArgs = <<EMPTY, EMPTY>>
    /\ mRet = NoMatch

LicenseIdle ==
    /\ env = NoEnv
    /\ call = NoCall

\* The matcher, for every comment rule the configuration can hold.
InitMatcher ==
    /\ comment \in CommentConfigs
    /\ license = DefaultLicenseConfig
    /\ MatcherIdle
    /\ LicenseIdle

\* The template source, for every license rule the configuration can hold.
InitLicense ==
    /\ comment = DefaultCommentConfig
    /\ license \in LicenseConfigs
    /\ MatcherIdle
    /\ LicenseIdle

GetFiletype ==
    \E filename \in Filenames :
        /\ lastOp' = "get_filetype"
        /\ ftArg' = filename
        /\ ftRet' = get_filetype(filename)
        /\ mArgs' = <<EMPTY, EMPTY>>
        /\ mRet' = NoMatch
        /\ UNCHANGED <<comment, licenseVars>>

Matches ==
    \E file_type \in FileExts, filename \in Paths :
        /\ lastOp' = "matches"
        /\ mArgs' = <<file_type, filename>>
        /\ mRet' = ConfigMatches(comment, file_type, filename)
        /\ ftArg' = EMPTY
        /\ ftRet' = EMPTY
        /\ UNCHANGED <<comment, licenseVars>>

\* One call of get_template.  The rule is borrowed immutably and the call keeps
\* nothing, so a later call for another file reaches exactly the states of a
\* first call; a process that has exited or panicked calls nothing any more.
GetTemplate ==
    /\ call.outcome = "none"
    /\ \E filename \in Paths, e \in Envs :
        /\ env' = e
        /\ call' = GetTemplateResult(license, filename, e)
    /\ UNCHANGED <<license, matcherVars>>

NextMatcher == GetFiletype \/ Matches
NextLicense == GetTemplate

SpecMatcher == InitMatcher /\ [][NextMatcher]_vars
SpecLicense == InitLicense /\ [][NextLicense]_vars

\* ------------------------------------------------------------------ claims
MatchesRan == lastOp = "matches"
ExtensionPasses == FileTypeMatches(comment.extension, mArgs[1])
PatternAccepts ==
    ~IsSome(comment.files) \/ mArgs[2] \in Unwrap(comment.files)

\* C1: Config::matches(file_type, filename) is true exactly when the extension
\* check passes and (the rule has no filename pattern or the pattern matches
\* the filename); when the extension check fails the result is false and the
\* pattern is not consulted.
C1_MatchesContract ==
    MatchesRan =>
        /\ mRet.ret = (ExtensionPasses /\ PatternAccepts)
        /\ (~ExtensionPasses => ~mRet.ret /\ ~mRet.consulted)

\* C1 witness: the extension check fails on a rule whose pattern accepts the
\* path, and the call returned false without consulting the pattern.
C1_Witness ==
    /\ MatchesRan
    /\ ~ExtensionPasses
    /\ IsSome(comment.files)
    /\ mArgs[2] \in Unwrap(comment.files)
    /\ ~mRet.ret
    /\ ~mRet.consulted

\* The extensions a rule lists, as a set.
ExtensionSet(ft) ==
    IF ft.kind = "Single" THEN {ft.val}
    ELSE {ft.val[i] : i \in 1..Len(ft.val)}

\* C2: a rule whose extension set contains "any" matches every extension, the
\* empty one included, whether the set is a single string or a list; without
\* "any" an extension matches only when it is exactly a listed one.
C2_AnySentinel ==
    (MatchesRan /\ ~IsSome(comment.files)) =>
        mRet.ret = (ANY \in ExtensionSet(comment.extension)
                        \/ mArgs[1] \in ExtensionSet(comment.extension))

\* The substring after the last '.', empty when there is no '.'.
AfterLastDot(s) ==
    IF \E i \in 1..Len(s) : s[i] = DOT
    THEN LET i == CHOOSE k \in 1..Len(s) :
                     s[k] = DOT /\ \A j \in (k + 1)..Len(s) : s[j] # DOT
         IN  SubSeq(s, i + 1, Len(s))
    ELSE EMPTY

\* C3: get_filetype returns the substring after the last '.' of the filename,
\* and the empty string for every filename without a '.'.
C3_GetFiletype ==
    lastOp = "get_filetype" => ftRet = AfterLastDot(ftArg)

Called == call.outcome # "none"
Returned == call.outcome = "returned"
AutoTemplate == UnwrapOr(license.auto_template, FALSE)
Fetched == Called /\ ~IsSome(license.template) /\ AutoTemplate

\* C4: if git log ends with a non-zero exit status, get_template is fatal: no
\* Template is produced and the run does not go on with fallback years.
C4_GitFailureIsFatal ==
    (Called /\ Len(call.gitQueries) > 0
        /\ env.git.spawn = "Ok" /\ env.git.status # 0) =>
        (~Returned /\ ~IsSome(call.template))

\* The year token of a date laid out by DateOf.
YearToken(date) == <<date[9]>>
WellFormedDates == {Date2024, Date2020}

\* C5: with use_dynamic_year_ranges set, the years of the context come from
\* the file's date list: end year from the first date and start year from the
\* last one (the same date when there is one), and the current year for both
\* when the list is empty, which is not fatal.
C5_DynamicYears ==
    (Called /\ license.use_dynamic_year_ranges /\ IsSome(call.dates)) =>
        LET dates == Unwrap(call.dates)
            n == Len(dates)
        IN  /\ (n = 0 =>
                    /\ Returned
                    /\ Unwrap(call.template).context.end_year
                           = Some(YearToken(env.now))
                    /\ Unwrap(call.template).context.start_year
                           = Some(YearToken(env.now)))
            /\ ((n >= 1 /\ \A i \in 1..n : dates[i] \in WellFormedDates) =>
                    /\ Returned
                    /\ Unwrap(call.template).context.end_year
                           = Some(YearToken(dates[1]))
                    /\ Unwrap(call.template).context.start_year
                           = Some(YearToken(dates[n])))

\* C5 witness: static years are configured, git gave a 2024 date and then a
\* 2020 date, and the context holds 2024 as end year and 2020 as start year.
C5_Witness ==
    /\ Returned
    /\ license.use_dynamic_year_ranges
    /\ license.end_year = Some(<<"1999">>)
    /\ license.start_year = Some(<<"1990">>)
    /\ call.dates = Some(<<Date2024, Date2020>>)
    /\ Unwrap(call.template).context.end_year = Some(<<"2024">>)
    /\ Unwrap(call.template).context.start_year = Some(<<"2020">>)

\* C6: with a static template configured, get_template makes no registry
\* request and the Template it returns has exactly that string as its body,
\* whatever auto_template is.
C6_StaticTemplateNoFetch ==
    (Called /\ IsSome(license.template)) =>
        /\ call.requests = << >>
        /\ (~license.use_dynamic_year_ranges => Returned)
        /\ (Returned => Unwrap(call.template).body = Unwrap(license.template))

\* C6 witness: a static template with auto_template on and a registry that
\* would have answered; the static body was returned and nothing was requested.
C6_Witness ==
    /\ Returned
    /\ license.template = Some("STATIC")
    /\ license.auto_template = Some(TRUE)
    /\ env.http.call = "Ok" /\ env.http.status = 200 /\ IsSome(env.http.json)
    /\ call.requests = << >>
    /\ Unwrap(call.template).body = "STATIC"

\* C7: without a static template and with auto_template off or unset,
\* get_template prints a message naming the identifier and exits with status
\* 1, before any registry request or git query, and returns no Template.
C7_NoTemplateIsConfigError ==
    (Called /\ ~IsSome(license.template) /\ ~AutoTemplate) =>
        /\ call.requests = << >>
        /\ call.gitQueries = << >>
        /\ call.outcome = "exit"
        /\ call.code = 1
        /\ ~IsSome(call.template)
        /\ \E i \in 1..Len(call.printed) :
               \E j \in 1..Len(call.printed[i]) :
                   call.printed[i][j] = license.ident

\* C7 witness: auto_template unset, dynamic years wanted and a registry that
\* would answer, and the call exited at the template choice.
C7_Witness ==
    /\ call.outcome = "exit"
    /\ license.template = None
    /\ license.auto_template = None
    /\ license.use_dynamic_year_ranges
    /\ env.http.call = "Ok" /\ env.http.status = 200
    /\ env.git.spawn = "Ok"
    /\ call.requests = << >>
    /\ call.gitQueries = << >>

FetchSucceeds ==
    env.http.call = "Ok" /\ env.http.status = 200 /\ IsSome(env.http.json)

\* C8: every failure of the fetch (transport error, 404, any other status but
\* 200, unparseable body) ends the process with status 1 after one request,
\* with no retry and no template; only a parseable 200 yields a template.
C8_FetchFailureIsFatal ==
    Fetched =>
        /\ Len(call.requests) = 1
        /\ (~FetchSucceeds =>
                /\ call.outcome = "exit"
                /\ call.code = 1
                /\ call.gitQueries = << >>
                /\ ~IsSome(call.template))
        /\ (IsSome(call.template) => FetchSucceeds)

\* C8 witness: the registry answered 500 with a parseable body and the call
\* exited after its one request.
C8_Witness ==
    /\ Fetched
    /\ env.http.call = "Ok" /\ env.http.status = 500 /\ IsSome(env.http.json)
    /\ call.outcome = "exit"
    /\ Len(call.requests) = 1

\* C9: a fetched template has the response's standardLicenseHeader as body
\* when that field is present, and the licenseText only when it is absent.
C9_HeaderPreferred ==
    (Fetched /\ Returned) =>
        LET info == Unwrap(env.http.json)
        IN  Unwrap(call.template).body =
                IF info.license_header # None
                THEN Unwrap(info.license_header)
                ELSE info.license_text

\* C9 witness: the response carries both fields and the body is the header.
C9_Witness ==
    /\ Fetched
    /\ Returned
    /\ Unwrap(env.http.json).license_header = Some("HEADER")
    /\ Unwrap(env.http.json).license_text = "TEXT"
    /\ Unwrap(call.template).body = "HEADER"

\* C10: the returned Template is marked as an SPDX template only when its body
\* was fetched from the registry, never when it came from the static template.
C10_SpdxOnlyWhenFetched ==
    Returned =>
        (Unwrap(call.template).spdx_template => Len(call.requests) > 0)

====
